---------------------------- MODULE Spec2Model ----------------------------
(***************************************************************************)
(* A model of pyvisa.resources.resource.Resource: the session handle's     *)
(* open/close lifecycle with the bounded "device not yet present" retry    *)
(* loop, and the timeout attribute's encoding.                             *)
(*                                                                         *)
(* The backend (visalib, the resource manager) is an external collaborator *)
(* whose outcomes are nondeterministic: every backend call may succeed or  *)
(* fail.  One Resource object is modelled.                                 *)
(***************************************************************************)
EXTENDS Integers, Sequences, FiniteSets, TLC

(***************************************************************************)
(* Bounds of the model.                                                    *)
(***************************************************************************)
\* Number of distinct session handles the backend can hand out.
MaxHandles == 2
\* A clear() call takes 0..MaxClearSleeps times the sleep time.
MaxClearSleeps == 1

(***************************************************************************)
(* Values.                                                                 *)
(***************************************************************************)
\* self.session = None: the handle is unset.
None == 0
Handles == 1..MaxHandles
\* The resource manager's own session, a handle distinct from every
\* resource handle.
RMHandle == MaxHandles + 1

OK == "OK"
VI_SUCCESS == "VI_SUCCESS"
VI_SUCCESS_DEV_NPRESENT == "VI_SUCCESS_DEV_NPRESENT"
VI_ERROR_RSRC_NFOUND == "VI_ERROR_RSRC_NFOUND"
VI_ERROR_NLISTENERS == "VI_ERROR_NLISTENERS"
VI_ERROR_TMO == "VI_ERROR_TMO"
VI_ERROR_INV_OBJECT == "VI_ERROR_INV_OBJECT"
VI_ERROR_CLOSING_FAILED == "VI_ERROR_CLOSING_FAILED"
VI_ERROR_NSUP_ATTR == "VI_ERROR_NSUP_ATTR"
HookError == "HookError"
ValueError == "ValueError"

\* sleep_time = 0.1 and try_time = 5 seconds, in milliseconds.
SleepTime == 100
TryTime == 5000

(***************************************************************************)
(* Numbers.  The timeout bounds exceed the 32-bit integers of the model    *)
(* checker, so a number is kept as hi * 2^16 + lo + half/2 with            *)
(* lo \in 0..65535 and half \in {0, 1}; NaN is a value of its own.         *)
(***************************************************************************)
Radix == 2^16
Num(h, l, f) == [nan |-> FALSE, hi |-> h, lo |-> l, half |-> f]
NaN == [nan |-> TRUE, hi |-> 0, lo |-> 0, half |-> 0]
Zero == Num(0, 0, 0)
\* 4294967294 = 65535 * 65536 + 65534
UpperBound == Num(Radix - 1, Radix - 2, 0)
\* constants.VI_TMO_INFINITE = 0xFFFFFFFF
VI_TMO_INFINITE == Num(Radix - 1, Radix - 1, 0)

\* a < b on numbers; every comparison with NaN is false, as in Python.
Less(a, b) ==
    /\ ~a.nan
    /\ ~b.nan
    /\ \/ a.hi < b.hi
       \/ a.hi = b.hi /\ a.lo < b.lo
       \/ a.hi = b.hi /\ a.lo = b.lo /\ a.half < b.half
\* a <= b
LessEq(a, b) == ~a.nan /\ ~b.nan /\ (Less(a, b) \/ a = b)
\* math.isnan
IsNan(a) == a.nan
\* int(a) for a >= 0: truncation drops the fraction.
ToInt(a) == Num(a.hi, a.lo, 0)

(***************************************************************************)
(* Timeout codec.                                                          *)
(***************************************************************************)
\* Mutant: the upper bound is off by one.
TimeoutEncodeOffByOne(t) ==
    IF Less(t, Zero) \/ IsNan(t)
    THEN <<VI_TMO_INFINITE>>
    ELSE IF ~(LessEq(Zero, t) /\ LessEq(t, VI_TMO_INFINITE))
         THEN <<>>
         ELSE <<ToInt(t)>>

\* The timeout setter's conversion: <<v>> is the value handed to
\* set_visa_attribute, <<>> stands for raising ValueError.
TimeoutEncode(t) ==
    IF Less(t, Zero) \/ IsNan(t)
    THEN <<VI_TMO_INFINITE>>
    ELSE IF ~(LessEq(Zero, t) /\ LessEq(t, UpperBound))
         THEN <<>>
         ELSE <<ToInt(t)>>

\* Mutant: the largest finite timeout is taken for the sentinel too.
TimeoutDecodeOffByOne(raw) ==
    IF LessEq(UpperBound, raw) THEN NaN ELSE raw

\* Mutant: the sentinel is returned as it is stored.
TimeoutDecodeRaw(raw) == raw

\* The timeout getter's conversion of the raw attribute value.
TimeoutDecode(raw) ==
    IF raw = VI_TMO_INFINITE THEN NaN ELSE raw

\* Values written to the timeout property.
TimeoutInputs ==
    { Num(-1, Radix - 5, 0),          \* -5
      Num(-1, Radix - 1, 1),          \* -0.5
      NaN,
      Zero,
      Num(0, 1, 0),                   \* 1
      Num(0, 1, 1),                   \* 1.5
      UpperBound,                     \* 4294967294
      Num(Radix - 1, Radix - 2, 1),   \* 4294967294.5
      VI_TMO_INFINITE,                \* 4294967295
      Num(Radix, 0, 0) }              \* 4294967296

(***************************************************************************)
(* Attributes.  A string is a sequence of letters, each lower or upper     *)
(* case, so that upper-casing is a conversion that can be observed.        *)
(***************************************************************************)
Capitalized(letters) ==
    [i \in DOMAIN letters |-> [ch |-> letters[i], up |-> i = 1]]

\* str.upper()
Upper(str) == [i \in DOMAIN str |-> [ch |-> str[i].ch, up |-> TRUE]]

\* The literal 'Unknown'.
Unknown == Capitalized(<<"u", "n", "k", "n", "o", "w", "n">>)

\* The value the backend holds for VI_ATTR_RSRC_CLASS.
ClassStrings == { Capitalized(<<"s", "o", "c", "k", "e", "t">>) }

VI_ATTR_RSRC_CLASS == "VI_ATTR_RSRC_CLASS"
VI_ATTR_RSRC_NAME == "VI_ATTR_RSRC_NAME"
VI_ATTR_RSRC_LOCK_STATE == "VI_ATTR_RSRC_LOCK_STATE"
VI_ATTR_INTF_NUM == "VI_ATTR_INTF_NUM"
VI_ATTR_TMO_VALUE == "VI_ATTR_TMO_VALUE"

\* The attributes behind resource_name, lock_state and interface_number.
PropertyAttrs == {VI_ATTR_RSRC_NAME, VI_ATTR_RSRC_LOCK_STATE, VI_ATTR_INTF_NUM}
AttrNames == PropertyAttrs \cup {VI_ATTR_RSRC_CLASS}

\* Values of the three attributes: what the backend holds at first, and
\* what a caller tries to write.
AttrValues(name) ==
    IF name = VI_ATTR_RSRC_NAME THEN <<"GPIB::10", "GPIB::11">>
    ELSE IF name = VI_ATTR_RSRC_LOCK_STATE THEN <<"no_lock", "shared_lock">>
    ELSE <<"board 0", "board 1">>

InitAttrs ==
    { [n \in AttrNames |->
         IF n = VI_ATTR_RSRC_CLASS THEN c ELSE AttrValues(n)[1]]
      : c \in ClassStrings }

(***************************************************************************)
(* State.                                                                  *)
(***************************************************************************)
VARIABLES
    alive,       \* the Resource object has not been torn down
    rmSession,   \* self._resource_manager.session
    session,     \* self.session
    live,        \* backend: handles opened and not released
    closeTried,  \* backend: close was already requested for self.session
    tmo,         \* backend: VI_ATTR_TMO_VALUE
    pc,          \* "idle", or "retry" inside open()'s polling loop
    op,          \* the operation running or last run
    raised,      \* the error the operation raised, OK for none
    arg,         \* <<v>>: the operation's argument
    result,      \* <<v>>: the operation's return value
    calls,       \* hook and backend calls the operation issued, in order
    status,      \* status returned by open_bare_resource
    opened,      \* handle returned by open_bare_resource in this open()
    elapsed,     \* time.time() - start_time
    clears,      \* clear() calls of this open()
    nlisteners,  \* backend: clear() calls it failed with NLISTENERS
    cleared,     \* backend: clear() calls it carried out
    outcome,     \* backend: outcome of the operation's last call, if any
    attrs,       \* backend: the attributes other than the timeout
    locked,      \* backend: self.session holds a lock
    lockRequest  \* <<mode, timeout, key>> passed to visalib.lock

vars == <<alive, rmSession, session, live, closeTried, tmo, pc, op, raised,
          arg, result, calls, status, opened, elapsed, clears,
          nlisteners, cleared, outcome, attrs, locked, lockRequest>>

Init ==
    /\ alive = TRUE
    /\ rmSession = RMHandle
    /\ session = None
    /\ live = {}
    /\ closeTried = FALSE
    /\ tmo = Zero
    /\ pc = "idle"
    /\ op = "__init__"
    /\ raised = OK
    /\ arg = <<>>
    /\ result = <<>>
    /\ calls = <<>>
    /\ status = VI_SUCCESS
    /\ opened = None
    /\ elapsed = 0
    /\ clears = 0
    /\ nlisteners = 0
    /\ cleared = 0
    /\ outcome = "none"
    /\ attrs \in InitAttrs
    /\ locked = FALSE
    /\ lockRequest = <<>>

\* A call starts only between operations of a live object.
Callable == alive /\ pc = "idle"

NoLoop ==
    /\ status' = VI_SUCCESS
    /\ opened' = None
    /\ elapsed' = 0
    /\ clears' = 0
    /\ nlisteners' = 0
    /\ cleared' = 0

(***************************************************************************)
(* Backend outcomes.                                                       *)
(***************************************************************************)
\* open_bare_resource: a hard error, or a status with a handle not in use.
OpenStatuses ==
    IF rmSession = None \/ Handles \ live = {}
    THEN {VI_ERROR_RSRC_NFOUND}
    ELSE {VI_SUCCESS, VI_SUCCESS_DEV_NPRESENT, VI_ERROR_RSRC_NFOUND}

\* visalib.clear(session)
ClearOutcomes ==
    {OK, VI_ERROR_NLISTENERS, VI_ERROR_TMO, VI_ERROR_INV_OBJECT}
ClearDurations == {k * SleepTime : k \in 0..MaxClearSleeps}

\* visalib.close(session)
CloseOutcomes == {OK, VI_ERROR_CLOSING_FAILED}

\* before_close(): the base class's hook passes, a subclass's may raise.
HookOutcomes == {OK, HookError}

\* visalib.get_attribute / set_attribute on handle s.
AttrOutcomes(s) ==
    IF s \in live THEN {OK, VI_ERROR_NSUP_ATTR} ELSE {VI_ERROR_INV_OBJECT}

(***************************************************************************)
(* Session lifecycle.                                                      *)
(***************************************************************************)
\* open(), up to the test of the status: open_bare_resource either raises,
\* leaving self.session as it was, or self.session is assigned the handle
\* it returned; on VI_SUCCESS_DEV_NPRESENT the polling loop is entered.
Open ==
    /\ Callable
    /\ \E st \in OpenStatuses :
         /\ op' = "open"
         /\ arg' = <<>>
         /\ result' = <<>>
         /\ calls' = <<"open_bare_resource">>
         /\ status' = st
         /\ elapsed' = 0
         /\ clears' = 0
         /\ nlisteners' = 0
         /\ cleared' = 0
         /\ outcome' = st
         /\ IF st = VI_ERROR_RSRC_NFOUND
            THEN /\ raised' = st
                 /\ opened' = None
                 /\ pc' = "idle"
                 /\ UNCHANGED <<session, live, closeTried>>
            ELSE \E h \in Handles \ live :
                   /\ session' = h
                   /\ opened' = h
                   /\ live' = live \cup {h}
                   /\ closeTried' = FALSE
                   /\ raised' = OK
                   /\ pc' = IF st = VI_SUCCESS_DEV_NPRESENT
                            THEN "retry" ELSE "idle"
    /\ locked' = (locked /\ session' = session)
    /\ lockRequest' = <<>>
    /\ UNCHANGED <<alive, rmSession, tmo, attrs>>

\* Mutant: the loop's bound is tested with <=.
LoopContinuesInclusive(el) == el <= TryTime

\* while time.time() - start_time < try_time
LoopContinues(el) == el < TryTime

\* Mutant: every error of clear() is swallowed.
RetryableAny(err) == TRUE

\* Mutant: the test of the error code inverted.
RetryableInverted(err) == err # VI_ERROR_NLISTENERS

\* The except clause of the loop: only this error is swallowed.
Retryable(err) == err = VI_ERROR_NLISTENERS

\* Mutant: the break after a successful clear() is missing.
AfterClearNoBreak(r) ==
    IF r = OK THEN "retry"
    ELSE IF Retryable(r) THEN "retry"
    ELSE "raise"

\* What the loop does with the outcome r of clear(): break on success, go
\* round again on a retryable error, raise any other error.
AfterClear(r) ==
    IF r = OK THEN "break"
    ELSE IF Retryable(r) THEN "retry"
    ELSE "raise"

\* One iteration of the polling loop: sleep, then clear().
RetryIteration ==
    /\ alive
    /\ pc = "retry"
    /\ LoopContinues(elapsed)
    /\ \E r \in ClearOutcomes, d \in ClearDurations :
         /\ calls' = calls \o <<"sleep", "clear">>
         /\ clears' = clears + 1
         /\ elapsed' = elapsed + SleepTime + d
         /\ nlisteners' = nlisteners + IF r = VI_ERROR_NLISTENERS THEN 1 ELSE 0
         /\ cleared' = cleared + IF r = OK THEN 1 ELSE 0
         /\ pc' = IF AfterClear(r) = "retry" THEN "retry" ELSE "idle"
         /\ raised' = IF AfterClear(r) = "raise" THEN r ELSE OK
         /\ outcome' = r
    /\ UNCHANGED <<alive, rmSession, session, live, closeTried, tmo, op, arg,
                   result, status, opened, attrs, locked, lockRequest>>

\* The loop's condition fails: open() returns without an error.
RetryExpired ==
    /\ alive
    /\ pc = "retry"
    /\ ~LoopContinues(elapsed)
    /\ pc' = "idle"
    /\ raised' = OK
    /\ UNCHANGED <<alive, rmSession, session, live, closeTried, tmo, op, arg,
                   result, calls, status, opened, elapsed, clears,
                   nlisteners, cleared, outcome, attrs, locked,
                   lockRequest>>

\* Mutant: the resource's own handle is not tested.
CloseIsNoopManagerOnly(rm, s) == rm = None

\* Mutant: the resource manager's session is not tested.
CloseIsNoopSessionOnly(rm, s) == s = None

\* if self._resource_manager.session is None or self.session is None: return
CloseIsNoop(rm, s) == rm = None \/ s = None

\* Mutant: the backend's close is called before the hook.
CloseOrderReleaseFirst == <<"close", "before_close">>

\* The calls of close(): self.before_close(), then visalib.close.
CloseOrder == <<"before_close", "close">>

\* The body of close(), run by the call named name.
CloseBody(name) ==
    /\ op' = name
    /\ arg' = <<>>
    /\ result' = <<>>
    /\ NoLoop
    /\ IF CloseIsNoop(rmSession, session)
       THEN /\ calls' = <<>>
            /\ raised' = OK
            /\ outcome' = "none"
            /\ UNCHANGED <<session, live, closeTried>>
       ELSE \E hook \in HookOutcomes :
              IF hook # OK
              THEN /\ calls' = SubSeq(CloseOrder, 1, 1)
                   /\ raised' = hook
                   /\ outcome' = hook
                   /\ UNCHANGED <<session, live, closeTried>>
              ELSE \E rel \in CloseOutcomes :
                     /\ calls' = CloseOrder
                     /\ raised' = rel
                     /\ outcome' = rel
                     /\ IF rel = OK
                        THEN /\ session' = None
                             /\ live' = live \ {session}
                             /\ closeTried' = FALSE
                        ELSE /\ closeTried' = TRUE
                             /\ UNCHANGED <<session, live>>
    /\ locked' = (locked /\ session' = session)
    /\ lockRequest' = <<>>
    /\ UNCHANGED <<rmSession, tmo, pc, attrs>>

\* close()
Close ==
    /\ Callable
    /\ CloseBody("close")
    /\ UNCHANGED alive

\* __del__(): close() run by the teardown of the object; an exception it
\* raises does not reach any caller.
Del ==
    /\ Callable
    /\ CloseBody("__del__")
    /\ alive' = FALSE

\* The resource manager is closed: its session becomes None.
RMClose ==
    /\ Callable
    /\ rmSession # None
    /\ rmSession' = None
    /\ op' = "rm_close"
    /\ arg' = <<>>
    /\ result' = <<>>
    /\ calls' = <<>>
    /\ raised' = OK
    /\ outcome' = "none"
    /\ NoLoop
    /\ lockRequest' = <<>>
    /\ UNCHANGED <<alive, session, live, closeTried, tmo, pc, attrs, locked>>

(***************************************************************************)
(* Timeout property.                                                       *)
(***************************************************************************)
\* timeout.setter
TimeoutSet ==
    /\ Callable
    /\ \E t \in TimeoutInputs :
         /\ op' = "timeout_set"
         /\ arg' = <<t>>
         /\ result' = <<>>
         /\ NoLoop
         /\ IF TimeoutEncode(t) = <<>>
            THEN /\ raised' = ValueError
                 /\ calls' = <<>>
                 /\ outcome' = "none"
                 /\ tmo' = tmo
            ELSE \E r \in AttrOutcomes(session) :
                   /\ calls' = <<"set_attribute">>
                   /\ raised' = r
                   /\ outcome' = r
                   /\ tmo' = IF r = OK THEN TimeoutEncode(t)[1] ELSE tmo
    /\ lockRequest' = <<>>
    /\ UNCHANGED <<alive, rmSession, session, live, closeTried, pc, attrs,
                   locked>>

\* timeout getter
TimeoutGet ==
    /\ Callable
    /\ \E r \in AttrOutcomes(session) :
         /\ op' = "timeout_get"
         /\ arg' = <<>>
         /\ calls' = <<"get_attribute">>
         /\ raised' = r
         /\ outcome' = r
         /\ result' = IF r = OK THEN <<TimeoutDecode(tmo)>> ELSE <<>>
         /\ NoLoop
    /\ lockRequest' = <<>>
    /\ UNCHANGED <<alive, rmSession, session, live, closeTried, tmo, pc,
                   attrs, locked>>

(***************************************************************************)
(* Attributes, locks, clear and event handlers: each method passes         *)
(* self.session to one backend function.                                   *)
(***************************************************************************)
VI_ERROR_RSRC_LOCKED == "VI_ERROR_RSRC_LOCKED"
VI_ERROR_SESN_NLOCKED == "VI_ERROR_SESN_NLOCKED"
VI_ERROR_ATTR_READONLY == "VI_ERROR_ATTR_READONLY"
VI_ERROR_INV_HNDLR_REF == "VI_ERROR_INV_HNDLR_REF"
AttributeError == "AttributeError"

\* The frame of the methods of this section: the lifecycle is not touched.
Frame ==
    /\ NoLoop
    /\ UNCHANGED <<alive, rmSession, session, live, closeTried, pc>>

\* visalib.get_attribute(session, VI_ATTR_RSRC_CLASS)
ClassOutcomes(s) ==
    IF s \in live
    THEN {OK, VI_ERROR_NSUP_ATTR, VI_ERROR_TMO}
    ELSE {VI_ERROR_INV_OBJECT}

\* Mutant: every backend error is answered with the fallback.
ClassFallbackAny(err) == TRUE

\* if error.error_code != constants.VI_ERROR_NSUP_ATTR: raise
ClassFallback(err) == err = VI_ERROR_NSUP_ATTR

\* resource_class
ResourceClass ==
    /\ Callable
    /\ \E r \in ClassOutcomes(session) :
         /\ op' = "resource_class"
         /\ arg' = <<>>
         /\ calls' = <<"get_attribute">>
         /\ outcome' = r
         /\ IF r = OK
            THEN /\ result' = <<Upper(attrs[VI_ATTR_RSRC_CLASS])>>
                 /\ raised' = OK
            ELSE IF ClassFallback(r)
                 THEN /\ result' = <<Unknown>>
                      /\ raised' = OK
                 ELSE /\ result' = <<>>
                      /\ raised' = r
    /\ lockRequest' = <<>>
    /\ Frame
    /\ UNCHANGED <<tmo, attrs, locked>>

\* Keys: requested_key = None, the keys a caller supplies, and the keys the
\* backend generates.
NoKey == "None"
CallerKeys == {"key A"}
FreshKeys == {"generated key 1", "generated key 2"}

\* The timeout argument of lock(): <<>> when it is not given.
LockTimeouts == {<<>>, <<Num(0, 2000, 0)>>}

\* constants.AccessModes.shared_lock
LockMode == "shared_lock"

\* visalib.lock(session, mode, timeout, requested_key)
LockOutcomes(s) ==
    IF s \in live THEN {OK, VI_ERROR_RSRC_LOCKED} ELSE {VI_ERROR_INV_OBJECT}

\* What visalib.lock returns when it succeeds: the key (a generated one
\* when none was requested, else the requested one) and a status.
BackendLock(requested, fresh) ==
    <<IF requested = NoKey THEN fresh ELSE requested, VI_SUCCESS>>

\* Mutant: the status is returned in place of the key.
LockResultStatus(ret) == ret[2]

\* visalib.lock(...)[0]
LockResult(ret) == ret[1]

\* Mutant: the raw attribute is passed on, not the timeout property.
DefaultLockTimeoutRaw(raw) == raw

\* timeout = self.timeout, when no timeout is given
DefaultLockTimeout(raw) == TimeoutDecode(raw)

\* The call of visalib.lock that ends lock(), after the calls pre.
LockCall(pre, tm, key) ==
    \E lr \in LockOutcomes(session), fresh \in FreshKeys :
      /\ calls' = pre \o <<"lock">>
      /\ lockRequest' = <<LockMode, tm, key>>
      /\ outcome' = lr
      /\ raised' = lr
      /\ result' = IF lr = OK
                   THEN <<LockResult(BackendLock(key, fresh))>> ELSE <<>>
      /\ locked' = (locked \/ lr = OK)

\* lock(timeout, requested_key)
Lock ==
    /\ Callable
    /\ \E t \in LockTimeouts, key \in CallerKeys \cup {NoKey} :
         /\ op' = "lock"
         /\ arg' = <<t, key>>
         /\ IF t = <<>>
            THEN \E r \in AttrOutcomes(session) :
                   IF r # OK
                   THEN /\ calls' = <<"get_attribute">>
                        /\ lockRequest' = <<>>
                        /\ outcome' = r
                        /\ raised' = r
                        /\ result' = <<>>
                        /\ locked' = locked
                   ELSE LockCall(<<"get_attribute">>,
                                 DefaultLockTimeout(tmo), key)
            ELSE LockCall(<<>>, t[1], key)
    /\ Frame
    /\ UNCHANGED <<tmo, attrs>>

\* visalib.unlock(session)
UnlockOutcomes(s, held) ==
    IF s \notin live THEN {VI_ERROR_INV_OBJECT}
    ELSE IF held THEN {OK}
    ELSE {VI_ERROR_SESN_NLOCKED}

\* Mutant: unlock() asks the backend only when a lock is held.
UnlockSendsIfHeld(held) == held

\* unlock() asks the backend whatever the state: no test precedes the call.
UnlockSends(held) == TRUE

\* unlock()
Unlock ==
    /\ Callable
    /\ op' = "unlock"
    /\ arg' = <<>>
    /\ result' = <<>>
    /\ IF UnlockSends(locked)
       THEN \E r \in UnlockOutcomes(session, locked) :
              /\ calls' = <<"unlock">>
              /\ outcome' = r
              /\ raised' = r
              /\ locked' = (locked /\ r # OK)
       ELSE /\ calls' = <<>>
            /\ outcome' = "none"
            /\ raised' = OK
            /\ locked' = locked
    /\ lockRequest' = <<>>
    /\ Frame
    /\ UNCHANGED <<tmo, attrs>>

\* Mutant: interface_number is declared without ro=True.
ReadOnlyButInterfaceNumber(name) ==
    name \in {VI_ATTR_RSRC_NAME, VI_ATTR_RSRC_LOCK_STATE}

\* resource_name, lock_state and interface_number are declared ro=True.
ReadOnly(name) ==
    name \in {VI_ATTR_RSRC_NAME, VI_ATTR_RSRC_LOCK_STATE, VI_ATTR_INTF_NUM}

\* An assignment to resource_name, lock_state or interface_number: a
\* read-only attribute has no setter and the assignment fails before any
\* backend call; a writable one goes to set_visa_attribute.
PropertySet ==
    /\ Callable
    /\ \E name \in PropertyAttrs :
         /\ op' = "property_set"
         /\ arg' = <<name, AttrValues(name)[2]>>
         /\ result' = <<>>
         /\ IF ReadOnly(name)
            THEN /\ raised' = AttributeError
                 /\ calls' = <<>>
                 /\ outcome' = "none"
                 /\ attrs' = attrs
            ELSE \E r \in AttrOutcomes(session) :
                   /\ calls' = <<"set_attribute">>
                   /\ outcome' = r
                   /\ raised' = r
                   /\ attrs' = IF r = OK
                               THEN [attrs EXCEPT ![name] = AttrValues(name)[2]]
                               ELSE attrs
    /\ lockRequest' = <<>>
    /\ Frame
    /\ UNCHANGED <<tmo, locked>>

\* visalib.set_attribute(session, name, state): the backend rejects a
\* write of an attribute it holds read-only.
SetOutcomes(s, name) ==
    IF s \notin live THEN {VI_ERROR_INV_OBJECT}
    ELSE IF name = VI_ATTR_TMO_VALUE THEN {OK, VI_ERROR_NSUP_ATTR}
    ELSE {VI_ERROR_ATTR_READONLY}

\* The raw value the backend holds for an attribute.
RawValue(name) == IF name = VI_ATTR_TMO_VALUE THEN tmo ELSE attrs[name]

\* get_visa_attribute(name)
GetVisaAttribute ==
    /\ Callable
    /\ \E name \in {VI_ATTR_TMO_VALUE, VI_ATTR_RSRC_NAME},
          r \in AttrOutcomes(session) :
         /\ op' = "get_visa_attribute"
         /\ arg' = <<name>>
         /\ calls' = <<"get_attribute">>
         /\ outcome' = r
         /\ raised' = r
         /\ result' = IF r = OK THEN <<RawValue(name)>> ELSE <<>>
    /\ lockRequest' = <<>>
    /\ Frame
    /\ UNCHANGED <<tmo, attrs, locked>>

\* set_visa_attribute(name, state)
SetVisaAttribute ==
    /\ Callable
    /\ \E name \in {VI_ATTR_TMO_VALUE, VI_ATTR_RSRC_NAME} :
         \E state \in IF name = VI_ATTR_TMO_VALUE
                      THEN {Zero, VI_TMO_INFINITE}
                      ELSE {AttrValues(name)[2]},
            r \in SetOutcomes(session, name) :
           /\ op' = "set_visa_attribute"
           /\ arg' = <<name, state>>
           /\ result' = <<>>
           /\ calls' = <<"set_attribute">>
           /\ outcome' = r
           /\ raised' = r
           /\ tmo' = IF r = OK /\ name = VI_ATTR_TMO_VALUE THEN state ELSE tmo
    /\ lockRequest' = <<>>
    /\ Frame
    /\ UNCHANGED <<attrs, locked>>

\* visalib.clear, install_handler and uninstall_handler on handle s.
IOOutcomes(s) ==
    IF s \in live THEN {OK, VI_ERROR_TMO} ELSE {VI_ERROR_INV_OBJECT}
HandlerOutcomes(s) ==
    IF s \in live THEN {OK, VI_ERROR_INV_HNDLR_REF} ELSE {VI_ERROR_INV_OBJECT}

\* clear()
Clear ==
    /\ Callable
    /\ \E r \in IOOutcomes(session) :
         /\ op' = "clear"
         /\ arg' = <<>>
         /\ result' = <<>>
         /\ calls' = <<"clear">>
         /\ outcome' = r
         /\ raised' = r
    /\ lockRequest' = <<>>
    /\ Frame
    /\ UNCHANGED <<tmo, attrs, locked>>

\* What visalib.install_handler returns: the user handle, then the status.
BackendInstall == <<"user_handle", VI_SUCCESS>>

\* visalib.install_handler(...)[:-1]
AllButLast(ret) == SubSeq(ret, 1, Len(ret) - 1)

\* install_handler(event_type, handler, user_handle)
InstallHandler ==
    /\ Callable
    /\ \E r \in HandlerOutcomes(session) :
         /\ op' = "install_handler"
         /\ arg' = <<>>
         /\ calls' = <<"install_handler">>
         /\ outcome' = r
         /\ raised' = r
         /\ result' = IF r = OK THEN <<AllButLast(BackendInstall)>> ELSE <<>>
    /\ lockRequest' = <<>>
    /\ Frame
    /\ UNCHANGED <<tmo, attrs, locked>>

\* uninstall_handler(event_type, handler, user_handle)
UninstallHandler ==
    /\ Callable
    /\ \E r \in HandlerOutcomes(session) :
         /\ op' = "uninstall_handler"
         /\ arg' = <<>>
         /\ result' = <<>>
         /\ calls' = <<"uninstall_handler">>
         /\ outcome' = r
         /\ raised' = r
    /\ lockRequest' = <<>>
    /\ Frame
    /\ UNCHANGED <<tmo, attrs, locked>>

(***************************************************************************)
(* Specification.                                                          *)
(***************************************************************************)
Next ==
    \/ Open
    \/ RetryIteration
    \/ RetryExpired
    \/ Close
    \/ Del
    \/ RMClose
    \/ TimeoutSet
    \/ TimeoutGet
    \/ ResourceClass
    \/ Lock
    \/ Unlock
    \/ PropertySet
    \/ GetVisaAttribute
    \/ SetVisaAttribute
    \/ Clear
    \/ InstallHandler
    \/ UninstallHandler

Spec == Init /\ [][Next]_vars

\* open() runs on its caller's thread: once in the loop it goes on, to the
\* next iteration or out of the loop.
FairSpec == Spec /\ WF_vars(RetryIteration) /\ WF_vars(RetryExpired)

(***************************************************************************)
(* Properties.                                                             *)
(***************************************************************************)
\* The call named name has returned without an error.
Returned(name) == op = name /\ pc = "idle" /\ raised = OK
\* The call named name has raised an error.
Failed(name) == op = name /\ pc = "idle" /\ raised # OK
\* The operation issued the call c.
Issued(c) == \E i \in DOMAIN calls : calls[i] = c
\* This step is a call of close(), explicit or by teardown.
CloseStep == op' \in {"close", "__del__"}
\* This step's close() asks the backend to release the handle.
ReleaseStep == CloseStep /\ Len(calls') = 2

\* C1 as stated: after open() returns the handle is set, and after close()
\* returns, in whatever state it was called, the handle is unset.
C1_AsStated ==
    /\ Returned("open") => session # None
    /\ Returned("close") => session = None

\* C1, amended: after open() returns the handle is set; after close()
\* returns with the resource manager's session set the handle is unset; a
\* close() right after a close() that returned issues no call, raises
\* nothing and leaves the handle as it is.
C1_OpenCloseHandle ==
    /\ [](/\ Returned("open") => session # None
          /\ (Returned("close") /\ rmSession # None) => session = None)
    /\ [][(Returned("close") /\ op' = "close")
            => (calls' = <<>> /\ raised' = OK /\ session' = session)]_vars

C1_Witness ==
    /\ Returned("close")
    /\ rmSession # None
    /\ session = None
    /\ calls = <<"before_close", "close">>

\* C2 as stated: no handle is leaked or released twice: the backend's close
\* is never asked again for a handle it was already asked to release, a
\* handle still open in the backend is never overwritten by open(), and the
\* object is never torn down holding one.
C2_NoLeakNoDoubleRelease ==
    [][/\ ReleaseStep => ~closeTried
       /\ (op' = "open" /\ session # None /\ session' # session)
            => session \notin live'
       /\ (alive /\ ~alive') => session' \notin live']_vars

\* C3 as stated: the handle is unset before the first open(), whenever the
\* most recent open() raised, and after close().
C3_SetOnlyWhileOpen ==
    /\ op = "__init__" => session = None
    /\ Failed("open") => session = None
    /\ Returned("close") => session = None

\* C4: close() with the resource's handle unset or the resource manager's
\* session unset calls neither before_close nor the backend, raises nothing
\* and leaves the handle and the backend as they are.
C4_CloseNoop ==
    [][(CloseStep /\ (session = None \/ rmSession = None))
         => /\ calls' = <<>>
            /\ raised' = OK
            /\ session' = session
            /\ live' = live]_vars

C4_Witness ==
    /\ op = "close"
    /\ rmSession = None
    /\ session # None
    /\ calls = <<>>
    /\ raised = OK

\* C5 as stated: when before_close raises in close(), the backend's release
\* of the handle is not skipped.
C5_HookFailureStillReleases ==
    (op \in {"close", "__del__"} /\ raised = HookError) => Issued("close")

\* C6 as stated: when the backend's release fails in close(), the handle
\* ends up unset, and so no later close() asks for the release again.
C6_ReleaseFailureStillUnsets ==
    (op \in {"close", "__del__"} /\ raised = VI_ERROR_CLOSING_FAILED)
        => session = None

\* open() has ended after a VI_SUCCESS_DEV_NPRESENT status.
RetryEnded == op = "open" /\ pc = "idle" /\ status = VI_SUCCESS_DEV_NPRESENT

\* C7: when open_bare_resource returns VI_SUCCESS_DEV_NPRESENT and every
\* clear() fails with NLISTENERS, open() returns without an error once the
\* window has elapsed, the handle being the one open_bare_resource returned.
C7_WindowElapsedReturns ==
    (RetryEnded /\ nlisteners = clears)
        => /\ raised = OK
           /\ elapsed >= TryTime
           /\ session = opened
           /\ session \in Handles

C7_Witness ==
    /\ RetryEnded
    /\ nlisteners = clears
    /\ clears = TryTime \div SleepTime
    /\ raised = OK
    /\ session = opened

\* C8: when clear() fails with NLISTENERS n times and then succeeds, open()
\* returns without an error after exactly n + 1 clear() calls, each right
\* after a sleep of 100 ms; no clear() follows the successful one and the
\* handle is the one open_bare_resource returned.
C8_RetryUntilCleared ==
    (op = "open" /\ cleared > 0)
        => /\ cleared = 1
           /\ pc = "idle"
           /\ raised = OK
           /\ clears = nlisteners + 1
           /\ Len(calls) = 1 + 2 * clears
           /\ \A i \in 1..clears :
                calls[2 * i] = "sleep" /\ calls[2 * i + 1] = "clear"
           /\ elapsed >= clears * SleepTime
           /\ session = opened
           /\ session \in Handles

C8_Witness ==
    /\ Returned("open")
    /\ cleared = 1
    /\ nlisteners = 3
    /\ clears = 4

\* The timeout written is negative or not a number.
NegativeOrNan(t) == t.nan \/ t.hi < 0
\* The timeout written is 4294967295 or more.
AboveUpperBound(t) ==
    ~t.nan /\ (t.hi > Radix - 1 \/ (t.hi = Radix - 1 /\ t.lo = Radix - 1))

\* C9: a write of a negative or not-a-number timeout stores the infinite
\* sentinel, and a read right after it returns not-a-number.
C9_NegativeOrNanIsInfinite ==
    /\ []((Returned("timeout_set") /\ NegativeOrNan(arg[1]))
            => tmo = VI_TMO_INFINITE)
    /\ [][(/\ Returned("timeout_set")
           /\ NegativeOrNan(arg[1])
           /\ op' = "timeout_get"
           /\ raised' = OK)
            => result' = <<NaN>>]_vars

C9_Witness ==
    /\ Returned("timeout_get")
    /\ result = <<NaN>>
    /\ tmo = VI_TMO_INFINITE

\* C10: a write of a timeout of 4294967295 or more raises ValueError, issues
\* no backend call and leaves the stored timeout as it was; a read right
\* after it returns the value stored before the write.
C10_AboveBoundRejected ==
    /\ [][(op' = "timeout_set" /\ AboveUpperBound(arg'[1]))
            => /\ raised' = ValueError
               /\ calls' = <<>>
               /\ tmo' = tmo]_vars
    /\ [][(/\ op = "timeout_set"
           /\ raised = ValueError
           /\ op' = "timeout_get"
           /\ raised' = OK)
            => result' = <<IF tmo = VI_TMO_INFINITE THEN NaN ELSE tmo>>]_vars

C10_Witness ==
    /\ op = "timeout_set"
    /\ arg = <<VI_TMO_INFINITE>>
    /\ raised = ValueError
    /\ calls = <<>>
    /\ tmo = UpperBound
\* The timeout written is an integer of 0..4294967294.
IntegerInRange(t) ==
    /\ ~t.nan
    /\ t.half = 0
    /\ t.hi >= 0
    /\ t.hi < Radix - 1 \/ (t.hi = Radix - 1 /\ t.lo <= Radix - 2)

\* C11: a write of an integer t of 0..4294967294, both bounds included, is
\* not rejected and stores t, never the infinite sentinel, and a read right
\* after it returns t.
C11_TimeoutRoundTrip ==
    /\ []((Returned("timeout_set") /\ IntegerInRange(arg[1]))
            => (tmo = arg[1] /\ tmo # VI_TMO_INFINITE))
    /\ [][(op' = "timeout_set" /\ IntegerInRange(arg'[1]))
            => raised' # ValueError]_vars
    /\ [][(/\ Returned("timeout_set")
           /\ IntegerInRange(arg[1])
           /\ op' = "timeout_get"
           /\ raised' = OK)
            => result' = arg]_vars

C11_Witness ==
    /\ Returned("timeout_get")
    /\ result = <<UpperBound>>
    /\ tmo = UpperBound
\* C12: resource_class returns 'Unknown' when the backend fails the read of
\* the class attribute with VI_ERROR_NSUP_ATTR, the class string in upper
\* case when the read succeeds, and raises any other backend error as it
\* is, returning nothing.
C12_ResourceClass ==
    op = "resource_class"
        => /\ outcome = VI_ERROR_NSUP_ATTR
                => (raised = OK /\ result = <<Unknown>>)
           /\ outcome = OK
                => /\ raised = OK
                   /\ Len(result[1]) = Len(attrs[VI_ATTR_RSRC_CLASS])
                   /\ \A i \in DOMAIN result[1] :
                        /\ result[1][i].ch = attrs[VI_ATTR_RSRC_CLASS][i].ch
                        /\ result[1][i].up
           /\ outcome \notin {OK, VI_ERROR_NSUP_ATTR}
                => (raised = outcome /\ result = <<>>)

C12_Witness ==
    /\ op = "resource_class"
    /\ outcome = VI_ERROR_TMO
    /\ raised = VI_ERROR_TMO
    /\ result = <<>>
\* C13: lock() returns the key the backend assigns: the requested key when
\* one was given, and otherwise a key the backend generated, which is none
\* of the keys a caller supplies; when the backend fails, the error is
\* raised and no key is returned.
C13_LockReturnsKey ==
    /\ Returned("lock")
         => /\ arg[2] # NoKey => result = <<arg[2]>>
            /\ arg[2] = NoKey
                 => (result[1] \in FreshKeys /\ result[1] \notin CallerKeys)
    /\ Failed("lock") => (raised = outcome /\ result = <<>>)

C13_Witness ==
    /\ Returned("lock")
    /\ arg[2] = NoKey
    /\ result[1] \in FreshKeys
    /\ calls = <<"lock">>
\* C14: an assignment to lock_state, resource_name or interface_number
\* fails, issues no backend call and leaves the attributes the backend
\* holds as they are.
C14_ReadOnlyProperties ==
    [][op' = "property_set"
         => /\ raised' = AttributeError
            /\ calls' = <<>>
            /\ attrs' = attrs]_vars

C14_Witness ==
    /\ op = "property_set"
    /\ arg[1] = VI_ATTR_INTF_NUM
    /\ session \in live
    /\ raised = AttributeError
    /\ calls = <<>>
\* C15 as stated: the teardown of a Resource whose handle is set (its
\* resource manager's session being set too) releases the handle through
\* the backend and unsets it; the teardown of a Resource whose handle is
\* unset issues no call and raises nothing.
C15_TeardownReleases ==
    [][op' = "__del__"
         => /\ (session # None /\ rmSession # None)
                 => /\ calls' = <<"before_close", "close">>
                    /\ session' = None
                    /\ session \notin live'
            /\ session = None => (calls' = <<>> /\ raised' = OK)]_vars

\* C16: a close() that runs with both handles set calls before_close first
\* and the backend's close only after it, and the handle is unset by no
\* step other than a close() that has asked the backend to release it.
C16_CloseOrder ==
    /\ [][(CloseStep /\ session # None /\ rmSession # None)
            => /\ Len(calls') >= 1
               /\ calls'[1] = "before_close"
               /\ Len(calls') > 1 => calls' = <<"before_close", "close">>]_vars
    /\ [][(session # None /\ session' = None)
            => (CloseStep /\ calls' = <<"before_close", "close">>)]_vars

C16_Witness ==
    /\ Returned("close")
    /\ calls = <<"before_close", "close">>
    /\ outcome = OK
    /\ session = None
    /\ live = {}

\* C17: in the loop of open() only a clear() failing with NLISTENERS is
\* followed by another iteration: a clear() failing with any other error is
\* the last one, and open() raises that error.
C17_OnlyNoListenersRetried ==
    (op = "open" /\ clears > 0)
        => /\ pc = "retry" => outcome = VI_ERROR_NLISTENERS
           /\ outcome = VI_ERROR_NLISTENERS => raised = OK
           /\ outcome \notin {OK, VI_ERROR_NLISTENERS}
                => /\ pc = "idle"
                   /\ raised = outcome
                   /\ clears = nlisteners + 1
           /\ clears <= nlisteners + 1

C17_Witness ==
    /\ Failed("open")
    /\ raised = VI_ERROR_INV_OBJECT
    /\ outcome = VI_ERROR_INV_OBJECT
    /\ nlisteners = 2
    /\ clears = 3

\* C18: open() ends: no clear() is issued unless open_bare_resource returned
\* VI_SUCCESS_DEV_NPRESENT, every clear() comes right after a sleep of 100
\* ms, no iteration starts once 5 s have elapsed, there are at most 50
\* clear() calls, and a loop that was entered is left.
C18_OpenTerminates ==
    /\ []((op = "open" /\ status # VI_SUCCESS_DEV_NPRESENT)
            => (clears = 0 /\ pc = "idle" /\ Len(calls) = 1))
    /\ [](/\ clears <= TryTime \div SleepTime
          /\ elapsed >= clears * SleepTime)
    /\ [][clears' = clears + 1
            => /\ elapsed < TryTime
               /\ status = VI_SUCCESS_DEV_NPRESENT
               /\ calls' = calls \o <<"sleep", "clear">>]_vars
    /\ (pc = "retry") ~> (pc = "idle")

C18_Witness ==
    /\ op = "open"
    /\ pc = "idle"
    /\ clears = TryTime \div SleepTime
    /\ elapsed >= TryTime

\* C19: lock() asks the backend for a shared lock with the requested key;
\* without a timeout argument it reads the timeout attribute and passes
\* what the timeout property returns (not-a-number for the sentinel), and
\* with one it passes that timeout as it is and reads no attribute.
C19_LockRequest ==
    op = "lock"
        => /\ lockRequest = <<>>
                => (arg[1] = <<>> /\ calls = <<"get_attribute">> /\ raised # OK)
           /\ lockRequest # <<>>
                => /\ lockRequest[1] = "shared_lock"
                   /\ lockRequest[3] = arg[2]
                   /\ arg[1] # <<>>
                        => /\ lockRequest[2] = arg[1][1]
                           /\ calls = <<"lock">>
                   /\ arg[1] = <<>>
                        => /\ calls = <<"get_attribute", "lock">>
                           /\ lockRequest[2] =
                                IF tmo = VI_TMO_INFINITE THEN NaN ELSE tmo

C19_Witness ==
    /\ op = "lock"
    /\ arg[1] = <<>>
    /\ tmo = VI_TMO_INFINITE
    /\ lockRequest = <<"shared_lock", NaN, NoKey>>

\* The methods that pass one request to the backend, and the request.
SingleOps ==
    {"lock", "unlock", "get_visa_attribute", "set_visa_attribute", "clear",
     "install_handler", "uninstall_handler"}
RequestOf(name) ==
    IF name = "get_visa_attribute" THEN "get_attribute"
    ELSE IF name = "set_visa_attribute" THEN "set_attribute"
    ELSE name
\* The number of requests c among the calls cs.
Count(cs, c) == Cardinality({i \in DOMAIN cs : cs[i] = c})

\* C20 as stated: each of these calls issues exactly one backend request
\* for its operation, raises the backend's error if there is one, and
\* leaves the session handle as it is.
C20_AsStated ==
    [][op' \in SingleOps
         => /\ Count(calls', RequestOf(op')) = 1
            /\ outcome' # OK => raised' = outcome'
            /\ session' = session]_vars

\* C20, amended: each of these calls issues exactly one backend request for
\* its operation, except lock() without a timeout argument whose read of
\* the timeout attribute fails, which issues that read alone; no request is
\* issued twice, the backend's error is raised as it is, and the session
\* handle is left as it is.
C20_SingleAttempt ==
    [][op' \in SingleOps
         => /\ \/ Count(calls', RequestOf(op')) = 1
               \/ /\ op' = "lock"
                  /\ arg'[1] = <<>>
                  /\ calls' = <<"get_attribute">>
                  /\ raised' # OK
            /\ \A i \in DOMAIN calls' : Count(calls', calls'[i]) = 1
            /\ outcome' # OK => raised' = outcome'
            /\ session' = session]_vars

C20_Witness ==
    /\ op = "unlock"
    /\ ~locked
    /\ session \in live
    /\ calls = <<"unlock">>
    /\ raised = VI_ERROR_SESN_NLOCKED
=============================================================================
